---------------------------- MODULE Spec2Model ----------------------------
(***************************************************************************)
(* Model of the finite-state-machine engine of src/sm.c and src/sm.h.      *)
(*                                                                         *)
(* One instance (SM_instance_t) is driven by a host that calls the API     *)
(* functions one at a time; the tick cell (the volatile uint32_t SM_tick   *)
(* points to) is advanced by the host, between calls or during a call.     *)
(* Pointers are addresses: NULL is 0, the caller's state array starts at   *)
(* TableAddr and a pointer to its i-th element is TableAddr + i, so the    *)
(* pointer arithmetic of the code is kept.  The behaviours (onEntry,       *)
(* onExec, onExit, onTrans, onBreakTimeout) are user code; in each call    *)
(* one of them may itself make one engine call on the instance.            *)
(***************************************************************************)
EXTENDS Integers, Sequences, FiniteSets, TLC

\* ------------------------------------------------------------------ bounds
\* number of entries of the caller's state array
TableLen == 2
\* the tick cell starts at UINT32_MAX and advances, through its wrap, up to
\* this value
MaxTick == 0
\* the largest Timeout or Delay argument
MaxTimeout == 1
\* calls are made while the counters are at most this value
MaxCount == 1

\* ------------------------------------------------------- program constants
NULL == 0
UINT16_MAX == 65535
\* a uint32_t is kept as its two 16-bit halves <<high, low>>: the model
\* checker's integers are 32-bit signed and cannot hold 2^32 - 1
UINT32_MAX == <<UINT16_MAX, UINT16_MAX>>
SM_MAX_TIMEOUT == UINT32_MAX

SM_OK == "SM_OK"
SM_OPRT_INSTANCE_DOES_NOT_EXIST == "SM_OPRT_INSTANCE_DOES_NOT_EXIST"
SM_INIT_ERR == "SM_INIT_ERR"
SM_EXEC_DELAYED == "SM_EXEC_DELAYED"
SM_EXEC_NULL_PTR == "SM_EXEC_NULL_PTR"
SM_TRANS_ERR == "SM_TRANS_ERR"
SM_TRANS_LOCKED == "SM_TRANS_LOCKED"
SM_WRONG_STATE == "SM_WRONG_STATE"
\* SM_TRANS_NULL_PTR is used by SM_Trans but declared nowhere in sm.h
SM_TRANS_NULL_PTR == "SM_TRANS_NULL_PTR"

SM_TRANS_ENTRY_EXIT == "SM_TRANS_ENTRY_EXIT"
SM_TRANS_ENTRY == "SM_TRANS_ENTRY"
SM_TRANS_EXIT == "SM_TRANS_EXIT"
SM_TRANS_FAST == "SM_TRANS_FAST"
SM_transision_mode == {SM_TRANS_ENTRY_EXIT, SM_TRANS_ENTRY, SM_TRANS_EXIT, SM_TRANS_FAST}

\* ------------------------------------------------------------ addresses
\* some non-null function or object address
Fn == NULL + 1
\* address of the first element of the caller's state array
TableAddr == NULL + 1

VARIABLES
    sm,         \* the instance, an SM_instance_t
    tick,       \* the value of the host's tick cell
    SM_tick,    \* the registered pointer to the tick cell
    StateTable, \* the caller's array of SM_state_t
    last        \* the last API call: its operation, arguments, result and events

vars == <<sm, tick, SM_tick, StateTable, last>>

\* ------------------------------------------------------------ arithmetic
\* the uint32_t of value n, for 0 <= n < 2^31
U32(n) == <<n \div (UINT16_MAX + 1), n % (UINT16_MAX + 1)>>
\* a difference that does not wrap: 0 when a is below b
TimeSub_saturating(a, b) ==
    IF a[1] < b[1] \/ (a[1] = b[1] /\ a[2] < b[2])
    THEN <<0, 0>>
    ELSE LET borrow == IF a[2] < b[2] THEN 1 ELSE 0
         IN  <<a[1] - b[1] - borrow,
               (a[2] - b[2] + UINT16_MAX + 1) % (UINT16_MAX + 1)>>

\* SM_TIME_t is volatile uint32_t: a - b in unsigned 32-bit arithmetic,
\* the low halves subtracted with a borrow out of the high halves
TimeSub(a, b) ==
    LET borrow == IF a[2] < b[2] THEN 1 ELSE 0
    IN  <<(a[1] - b[1] - borrow + UINT16_MAX + 1) % (UINT16_MAX + 1),
          (a[2] - b[2] + UINT16_MAX + 1) % (UINT16_MAX + 1)>>
\* a >= b on uint32_t
Geq32(a, b) == a[1] > b[1] \/ (a[1] = b[1] /\ a[2] >= b[2])
\* x++ on a uint32_t
Inc32(x) ==
    IF x[2] = UINT16_MAX
    THEN <<(x[1] + 1) % (UINT16_MAX + 1), 0>>
    ELSE <<x[1], x[2] + 1>>

\* ------------------------------------------------------------ the instance
\* every field zero: an instance with static storage before SM_init
SM_instance_t ==
    [SM_states |-> NULL, ActualState |-> NULL, PrevState |-> NULL,
     NumberOfStates |-> 0,
     TransTick |-> U32(0), lastExecTick |-> U32(0), ExecBlockTick |-> U32(0),
     TransLockTick |-> U32(0), DelayTime |-> U32(0),
     ExecBlockTimeout |-> U32(0), TransLockTimeout |-> U32(0),
     ExecBreak |-> 0, TransitionLock |-> 0,
     StateExecutionCounter |-> U32(0), MachineExecutionCounter |-> U32(0),
     TransCounter |-> U32(0),
     onBreakTimeout |-> NULL, onTrans |-> NULL, ctx |-> NULL]

\* one SM_state_t: three function pointers, each NULL or not
SM_state_t == [onEntry : {NULL, Fn}, onExec : {NULL, Fn}, onExit : {NULL, Fn}]

\* a state with every behaviour, one with none, one without onEntry and one
\* with onEntry only
FullState == [onEntry |-> Fn, onExec |-> Fn, onExit |-> Fn]
BareState == [onEntry |-> NULL, onExec |-> NULL, onExit |-> NULL]
ExitState == [onEntry |-> NULL, onExec |-> Fn, onExit |-> Fn]
EntryState == [onEntry |-> Fn, onExec |-> NULL, onExit |-> NULL]

\* *p for a pointer p into the caller's array; the engine checks every index
\* against NumberOfStates before it forms p, the words past the array hold
\* no behaviour
StateAt(p) ==
    IF p - TableAddr \in DOMAIN StateTable
    THEN StateTable[p - TableAddr]
    ELSE BareState

\* ------------------------------------------------------ a call in progress
\* sm: the instance; tk: the tick cell; adv: the cell is incremented by the
\* host just before the adv-th read from now (0: not during this call);
\* log: the behaviours invoked so far, each with the ActualState and
\* PrevState it observed; rd: the tick values read; nested: engine calls
\* made by behaviours; ub: a null pointer was dereferenced; ret: the result
Call(s, t, a) ==
    [sm |-> s, tk |-> t, adv |-> a, log |-> <<>>, rd |-> <<>>,
     nested |-> 0, ub |-> FALSE, ret |-> SM_OK]

Ret(c, code) == [c EXCEPT !.ret = code]

\* SM_GET_TICK reads the cell SM_tick points to; the value read is the tk of the result
SM_GET_TICK(c) ==
    [c EXCEPT !.tk = IF c.adv = 1 THEN Inc32(c.tk) ELSE c.tk,
              !.adv = IF c.adv > 0 THEN c.adv - 1 ELSE 0,
              !.rd = Append(@, IF c.adv = 1 THEN Inc32(c.tk) ELSE c.tk),
              !.ub = @ \/ SM_tick = NULL]

\* what a behaviour does besides its own work: nothing, or one engine call
NoCall == [call |-> "none", mode |-> "", State |-> 0, t |-> U32(0)]
CallbackNames == {"onEntry", "onExec", "onExit", "onTrans", "onBreakTimeout"}
Quiet == [n \in CallbackNames |-> NoCall]
\* only behaviour who makes the engine call b
Only(who, b) == [n \in CallbackNames |-> IF n = who THEN b ELSE NoCall]
\* every behaviour makes the engine call b
Every(b) == [n \in CallbackNames |-> b]


\* the event a behaviour leaves: its name and the states it observed
Event(name, s) == <<name, s.ActualState, s.PrevState>>

\* ------------------------------------------------------------ sm.c: helpers
\* a reset that keeps the state left last
SM_reset_instance_keeps_prev(s) ==
    [s EXCEPT !.SM_states = NULL, !.ActualState = NULL,
              !.NumberOfStates = 0,
              !.TransTick = U32(0), !.lastExecTick = U32(0),
              !.ExecBlockTick = U32(0), !.TransLockTick = U32(0),
              !.DelayTime = U32(0), !.ExecBlockTimeout = U32(0),
              !.TransLockTimeout = U32(0),
              !.ExecBreak = 0, !.TransitionLock = 0,
              !.StateExecutionCounter = U32(0),
              !.MachineExecutionCounter = U32(0), !.TransCounter = U32(0),
              !.onBreakTimeout = NULL, !.onTrans = NULL, !.ctx = NULL]

\* SM_reset_instance: every field of the instance cleared
SM_reset_instance(s) ==
    [s EXCEPT !.SM_states = NULL, !.ActualState = NULL, !.PrevState = NULL,
              !.NumberOfStates = 0,
              !.TransTick = U32(0), !.lastExecTick = U32(0),
              !.ExecBlockTick = U32(0), !.TransLockTick = U32(0),
              !.DelayTime = U32(0), !.ExecBlockTimeout = U32(0),
              !.TransLockTimeout = U32(0),
              !.ExecBreak = 0, !.TransitionLock = 0,
              !.StateExecutionCounter = U32(0),
              !.MachineExecutionCounter = U32(0), !.TransCounter = U32(0),
              !.onBreakTimeout = NULL, !.onTrans = NULL, !.ctx = NULL]

\* SM_state_is_in_range
SM_state_is_in_range(s, SM_state) ==
    IF SM_state >= s.SM_states /\ SM_state < s.SM_states + s.NumberOfStates
    THEN SM_OK
    ELSE SM_WRONG_STATE

\* an argument check that accepts FirstState = NumberOfStates
InitArgsInvalid_off_by_one(inst, SM_states, FirstState, NumberOfStates) ==
    \/ inst = NULL
    \/ SM_states = NULL
    \/ NumberOfStates < FirstState
    \/ NumberOfStates = 0

\* SM_init, line 132: the arguments SM_init rejects
InitArgsInvalid(inst, SM_states, FirstState, NumberOfStates) ==
    \/ inst = NULL
    \/ SM_states = NULL
    \/ NumberOfStates <= FirstState
    \/ NumberOfStates = 0

\* SM_init, lines 141-144: the instance bound to the table
InitBind(s, SM_states, FirstState, NumberOfStates, ctx) ==
    [s EXCEPT !.SM_states = SM_states,
              !.ActualState = SM_states + FirstState,
              !.NumberOfStates = NumberOfStates,
              !.ctx = ctx]

\* SM_init, line 146: whether SM_init invokes the first state's onEntry
InitCallsEntry(s) == StateAt(s.ActualState).onEntry # NULL

\* an index check that accepts State = NumberOfStates
TransTargetInvalid_off_by_one(s, State) == s.NumberOfStates < State

\* no index check at all
TransTargetInvalid_unchecked(s, State) == FALSE

\* SM_Trans, line 282: the target index SM_Trans rejects
TransTargetInvalid(s, State) == s.NumberOfStates <= State

\* a lock window that is still closed when exactly Timeout ticks have passed
TransLockElapsed_strict(s, now) ==
    /\ Geq32(TimeSub(now, s.TransLockTick), s.TransLockTimeout)
    /\ TimeSub(now, s.TransLockTick) # s.TransLockTimeout

\* SM_Trans, line 289: the lock window has elapsed at tick now
TransLockElapsed(s, now) ==
    Geq32(TimeSub(now, s.TransLockTick), s.TransLockTimeout)

\* a mode check where Fast needs the target's onEntry
ModeAllowed_fast_checked(mode, cur, tgt) ==
    CASE mode = SM_TRANS_ENTRY_EXIT -> cur.onExit # NULL /\ tgt.onEntry # NULL
      [] mode = SM_TRANS_ENTRY -> tgt.onEntry # NULL
      [] mode = SM_TRANS_EXIT -> cur.onExit # NULL
      [] mode = SM_TRANS_FAST -> tgt.onEntry # NULL
      [] OTHER -> FALSE

\* a mode check where one of the two behaviours is enough for ENTRY_EXIT
ModeAllowed_either(mode, cur, tgt) ==
    CASE mode = SM_TRANS_ENTRY_EXIT -> cur.onExit # NULL \/ tgt.onEntry # NULL
      [] mode = SM_TRANS_ENTRY -> tgt.onEntry # NULL
      [] mode = SM_TRANS_EXIT -> cur.onExit # NULL
      [] mode = SM_TRANS_FAST -> TRUE
      [] OTHER -> FALSE

\* SM_Trans, lines 301-355: the mode's check of the behaviours it needs
ModeAllowed(mode, cur, tgt) ==
    CASE mode = SM_TRANS_ENTRY_EXIT -> cur.onExit # NULL /\ tgt.onEntry # NULL
      [] mode = SM_TRANS_ENTRY -> tgt.onEntry # NULL
      [] mode = SM_TRANS_EXIT -> cur.onExit # NULL
      [] mode = SM_TRANS_FAST -> TRUE
      [] OTHER -> FALSE

\* SM_Trans: the modes that invoke the current state's onExit
ModeCallsExit(mode) == mode \in {SM_TRANS_ENTRY_EXIT, SM_TRANS_EXIT}
\* SM_Trans: the modes that invoke the target's onEntry
ModeCallsEntry(mode) == mode \in {SM_TRANS_ENTRY_EXIT, SM_TRANS_ENTRY}

\* a swap that forgets the state left
TransSwap_keeps_prev(s, target_state) ==
    [s EXCEPT !.ActualState = target_state]

\* SM_Trans, the pointer swap: PrevState and ActualState assigned
TransSwap(s, target_state) ==
    [s EXCEPT !.PrevState = s.ActualState, !.ActualState = target_state]

\* a transition that counts but keeps the per-state execution counter
TransCount_keeps_exec(s) == [s EXCEPT !.TransCounter = Inc32(@)]

\* SM_Trans, lines 364-365: the counters after a transition
TransCount(s) ==
    [s EXCEPT !.StateExecutionCounter = U32(0), !.TransCounter = Inc32(@)]

\* a break window that never elapses
ExecBreakElapsed_never(s, now) == FALSE

\* a break window that is over as soon as it is looked at
ExecBreakElapsed_at_once(s, now) == TRUE

\* SM_Execution, lines 221-222: the break window has elapsed at tick now
ExecBreakElapsed(s, now) ==
    Geq32(TimeSub(now, s.ExecBlockTick), s.ExecBlockTimeout)

\* a delay that is still pending when exactly DelayTime ticks have passed
ExecDelayPassed_strict(s, now) ==
    \/ s.DelayTime = U32(0)
    \/ /\ Geq32(TimeSub(now, s.lastExecTick), s.DelayTime)
       /\ TimeSub(now, s.lastExecTick) # s.DelayTime

\* SM_Execution, lines 234-235: no delay is pending at tick now
ExecDelayPassed(s, now) ==
    s.DelayTime = U32(0) \/ Geq32(TimeSub(now, s.lastExecTick), s.DelayTime)

\* a stamp that leaves the delay pending
ExecStamp_keeps_delay(s, now) == [s EXCEPT !.lastExecTick = now]

\* SM_Execution, lines 242-243: the exec timer set and the delay consumed
ExecStamp(s, now) == [s EXCEPT !.lastExecTick = now, !.DelayTime = U32(0)]

\* SM_Execution, lines 245-246: the counters after an execution
ExecCount(s) ==
    [s EXCEPT !.StateExecutionCounter = Inc32(@),
              !.MachineExecutionCounter = Inc32(@)]

\* ------------------------------------------------- sm.c: control functions
\* an arming that keeps the start of a window that is still armed
ExecBreakArm_keeps_start(c, Timeout) ==
    [c EXCEPT !.sm.ExecBlockTick = IF c.sm.ExecBreak = 1 THEN @ ELSE c.tk,
              !.sm.ExecBlockTimeout = Timeout,
              !.sm.ExecBreak = 1]

\* SM_exec_break, lines 388-390: the break armed at the tick just read
ExecBreakArm(c, Timeout) ==
    [c EXCEPT !.sm.ExecBlockTick = c.tk,
              !.sm.ExecBlockTimeout = Timeout,
              !.sm.ExecBreak = 1]

SM_exec_break(c, inst, Timeout) ==
    IF inst = NULL THEN Ret(c, SM_OPRT_INSTANCE_DOES_NOT_EXIST)
    ELSE Ret(ExecBreakArm(SM_GET_TICK(c), Timeout), SM_OK)

\* a release that waits for the break window to elapse
SM_exec_break_release_when_elapsed(c, inst) ==
    IF inst = NULL THEN Ret(c, SM_OPRT_INSTANCE_DOES_NOT_EXIST)
    ELSE IF ExecBreakElapsed(c.sm, SM_GET_TICK(c).tk)
    THEN Ret([c EXCEPT !.sm.ExecBreak = 0], SM_OK)
    ELSE Ret(c, SM_OK)

SM_exec_break_release(c, inst) ==
    IF inst = NULL THEN Ret(c, SM_OPRT_INSTANCE_DOES_NOT_EXIST)
    ELSE Ret([c EXCEPT !.sm.ExecBreak = 0], SM_OK)

\* SM_trans_lock, lines 434-436: the lock armed at the tick just read
TransLockArm(c, Timeout) ==
    [c EXCEPT !.sm.TransLockTick = c.tk,
              !.sm.TransLockTimeout = Timeout,
              !.sm.TransitionLock = 1]

SM_trans_lock(c, inst, Timeout) ==
    IF inst = NULL THEN Ret(c, SM_OPRT_INSTANCE_DOES_NOT_EXIST)
    ELSE Ret(TransLockArm(SM_GET_TICK(c), Timeout), SM_OK)

SM_trans_lock_release(c, inst) ==
    IF inst = NULL THEN Ret(c, SM_OPRT_INSTANCE_DOES_NOT_EXIST)
    ELSE Ret([c EXCEPT !.sm.TransitionLock = 0], SM_OK)

SM_exec_delay(c, inst, Delay) ==
    IF inst = NULL THEN Ret(c, SM_OPRT_INSTANCE_DOES_NOT_EXIST)
    ELSE Ret([c EXCEPT !.sm.DelayTime = Delay], SM_OK)

SM_onBreakTimeout_callback_register(c, inst, onBreakTimeout) ==
    IF inst = NULL THEN Ret(c, SM_OPRT_INSTANCE_DOES_NOT_EXIST)
    ELSE Ret([c EXCEPT !.sm.onBreakTimeout = onBreakTimeout], SM_OK)

SM_onTrans_callback_register(c, inst, onTrans) ==
    IF inst = NULL THEN Ret(c, SM_OPRT_INSTANCE_DOES_NOT_EXIST)
    ELSE Ret([c EXCEPT !.sm.onTrans = onTrans], SM_OK)

\* ------------------------------------------------------ sm.c: the engines
RECURSIVE SM_Trans(_, _, _, _, _)

\* the engine call b made by a behaviour; behaviours it invokes make none
EngineCall(c, b) ==
    CASE b.call = "SM_Trans" -> SM_Trans(c, Fn, b.mode, b.State, Quiet)
      [] b.call = "SM_exec_delay" -> SM_exec_delay(c, Fn, b.t)
      [] b.call = "SM_exec_break" -> SM_exec_break(c, Fn, b.t)
      [] b.call = "SM_trans_lock" -> SM_trans_lock(c, Fn, b.t)
      [] OTHER -> c

\* the engine call of a behaviour returns n into the call c that invoked it
Resume(n, c) == [n EXCEPT !.rd = c.rd, !.ret = c.ret]

\* the body of the behaviour name: its engine call, if it makes one
Behave(c, name, user) ==
    IF user[name].call = "none" THEN c
    ELSE Resume(EngineCall([c EXCEPT !.nested = @ + 1], user[name]), c)

\* a behaviour is invoked: it observes the instance and may make its call
Invoke(c, name, user) ==
    Behave([c EXCEPT !.log = Append(@, Event(name, c.sm))], name, user)

\* a success that cancels the pending delay
TransFinish_clears_delay(c) ==
    Ret([c EXCEPT !.sm = [TransCount(c.sm) EXCEPT !.DelayTime = U32(0)]], SM_OK)

\* SM_Trans, lines 364-367: the counters, and success
TransFinish(c) == Ret([c EXCEPT !.sm = TransCount(c.sm)], SM_OK)

\* SM_Trans, lines 357-362: TransTick takes the tick just read, onTrans runs
TransNotify(c, user) ==
    IF c.sm.onTrans # NULL
    THEN Invoke([c EXCEPT !.sm.TransTick = c.tk], "onTrans", user)
    ELSE [c EXCEPT !.sm.TransTick = c.tk]

\* SM_Trans: the target's onEntry, in the modes that call it
TransEnter(c, mode, user) ==
    IF ModeCallsEntry(mode) THEN Invoke(c, "onEntry", user) ELSE c

\* SM_Trans: the current state's onExit, in the modes that call it
TransLeave(c, mode, user) ==
    IF ModeCallsExit(mode) THEN Invoke(c, "onExit", user) ELSE c

\* a move that forgets the state left
TransMove_keeps_prev(c, target_state) ==
    [c EXCEPT !.sm.ActualState = target_state]

\* SM_Trans: the pointers swapped once onExit has returned into c
TransMove(c, target_state) == [c EXCEPT !.sm = TransSwap(c.sm, target_state)]

\* a mode switch whose failure restarts the per-state execution counter
TransSwitch_failure_resets(c, mode, target_state, user) ==
    IF ~ModeAllowed(mode, StateAt(c.sm.ActualState), StateAt(target_state))
    THEN Ret([c EXCEPT !.sm.StateExecutionCounter = U32(0)], SM_TRANS_ERR)
    ELSE TransFinish(
             TransNotify(
                 SM_GET_TICK(
                     TransEnter(
                         TransMove(TransLeave(c, mode, user), target_state),
                         mode, user)),
                 user))

\* SM_Trans, lines 299-367: the mode switch and what follows it
TransSwitch(c, mode, target_state, user) ==
    IF ~ModeAllowed(mode, StateAt(c.sm.ActualState), StateAt(target_state))
    THEN Ret(c, SM_TRANS_ERR)
    ELSE TransFinish(
             TransNotify(
                 SM_GET_TICK(
                     TransEnter(
                         TransMove(TransLeave(c, mode, user), target_state),
                         mode, user)),
                 user))

\* SM_Trans, lines 289-296: the lock checked against the tick just read
TransLockCheck(c, mode, State, user) ==
    IF TransLockElapsed(c.sm, c.tk)
    THEN TransSwitch([c EXCEPT !.sm.TransitionLock = 0], mode,
                     c.sm.SM_states + State, user)
    ELSE Ret(c, SM_TRANS_LOCKED)

SM_Trans(c, inst, mode, State, user) ==
    IF inst = NULL THEN Ret(c, SM_TRANS_NULL_PTR)
    ELSE IF TransTargetInvalid(c.sm, State) THEN Ret(c, SM_TRANS_ERR)
    ELSE IF c.sm.TransitionLock # 0
    THEN TransLockCheck(SM_GET_TICK(c), mode, State, user)
    ELSE TransSwitch(c, mode, c.sm.SM_states + State, user)

\* SM_init, lines 146-151: the first state's onEntry, and success
InitEnter(c, user) ==
    Ret(IF InitCallsEntry(c.sm) THEN Invoke(c, "onEntry", user) ELSE c, SM_OK)

SM_init(c, inst, SM_states, FirstState, NumberOfStates, ctx, user) ==
    IF InitArgsInvalid(inst, SM_states, FirstState, NumberOfStates)
    THEN Ret(c, SM_INIT_ERR)
    ELSE InitEnter([c EXCEPT !.sm = InitBind(SM_reset_instance(c.sm), SM_states,
                                             FirstState, NumberOfStates, ctx)],
                   user)

\* SM_Execution, lines 245-247: the counters, and success
ExecFinish(c) == Ret([c EXCEPT !.sm = ExecCount(c.sm)], SM_OK)

\* SM_Execution, lines 242-244: the tick just read stamped, onExec invoked
ExecRun(c, user) ==
    ExecFinish(Invoke([c EXCEPT !.sm = ExecStamp(c.sm, c.tk)], "onExec", user))

\* a gate that restarts the exec timer when it defers the call
ExecGate_stamps_deferred(c, user) ==
    IF ExecDelayPassed(c.sm, c.tk) /\ c.sm.ExecBreak = 0
    THEN IF SM_state_is_in_range(c.sm, c.sm.ActualState) # SM_OK
         THEN Ret(c, SM_WRONG_STATE)
         ELSE ExecRun(SM_GET_TICK(c), user)
    ELSE Ret([c EXCEPT !.sm.lastExecTick = c.tk], SM_EXEC_DELAYED)

\* SM_Execution, lines 234-252: the gate, c holding the tick read for it
\* when a delay is pending
ExecGate(c, user) ==
    IF ExecDelayPassed(c.sm, c.tk) /\ c.sm.ExecBreak = 0
    THEN IF SM_state_is_in_range(c.sm, c.sm.ActualState) # SM_OK
         THEN Ret(c, SM_WRONG_STATE)
         ELSE ExecRun(SM_GET_TICK(c), user)
    ELSE Ret(c, SM_EXEC_DELAYED)

\* a lookup that defers the call under an active break before it looks
ExecState_break_first(c, user) ==
    IF c.sm.ActualState = NULL THEN [c EXCEPT !.ub = TRUE]
    ELSE IF c.sm.ExecBreak # 0 THEN Ret(c, SM_EXEC_DELAYED)
    ELSE IF StateAt(c.sm.ActualState).onExec = NULL
    THEN Ret(c, SM_EXEC_NULL_PTR)
    ELSE ExecGate(IF c.sm.DelayTime = U32(0) THEN c ELSE SM_GET_TICK(c), user)

\* SM_Execution, lines 232-257: the active state's onExec looked up; with no
\* active state the lookup dereferences a null pointer
ExecState(c, user) ==
    IF c.sm.ActualState = NULL THEN [c EXCEPT !.ub = TRUE]
    ELSE IF StateAt(c.sm.ActualState).onExec = NULL
    THEN Ret(c, SM_EXEC_NULL_PTR)
    ELSE ExecGate(IF c.sm.DelayTime = U32(0) THEN c ELSE SM_GET_TICK(c), user)

\* an expiry that notifies but leaves the break active
ExecBreakExpire_keeps_break(c, user) ==
    IF c.sm.onBreakTimeout # NULL
    THEN Invoke(c, "onBreakTimeout", user)
    ELSE c

\* SM_Execution, lines 224-229: the break cleared, onBreakTimeout invoked
ExecBreakExpire(c, user) ==
    IF c.sm.onBreakTimeout # NULL
    THEN Invoke([c EXCEPT !.sm.ExecBreak = 0], "onBreakTimeout", user)
    ELSE [c EXCEPT !.sm.ExecBreak = 0]

\* SM_Execution, lines 221-230: the break checked against the tick just read
ExecBreakCheck(c, user) ==
    IF ExecBreakElapsed(c.sm, c.tk) THEN ExecBreakExpire(c, user) ELSE c

SM_Execution(c, inst, user) ==
    IF inst = NULL THEN Ret(c, SM_EXEC_NULL_PTR)
    ELSE ExecState(IF c.sm.ExecBreak # 0
                   THEN ExecBreakCheck(SM_GET_TICK(c), user)
                   ELSE c,
                   user)

\* ------------------------------------------------------ sm.c: introspection
SM_get_state_number(inst, s) ==
    IF inst = NULL \/ s.ActualState = NULL THEN UINT16_MAX
    ELSE (s.ActualState - s.SM_states) % (UINT16_MAX + 1)

SM_get_time_in_state(inst, s, now) ==
    IF inst = NULL \/ s.ActualState = NULL THEN SM_MAX_TIMEOUT
    ELSE TimeSub(now, s.TransTick)

SM_get_exec_counter_state(inst, s) ==
    IF inst = NULL \/ s.ActualState = NULL THEN UINT32_MAX
    ELSE s.StateExecutionCounter

SM_get_exec_counter_machine(inst, s) ==
    IF inst = NULL THEN UINT32_MAX ELSE s.MachineExecutionCounter

SM_get_trans_counter(inst, s) ==
    IF inst = NULL THEN UINT32_MAX ELSE s.TransCounter

\* ------------------------------------------------------------ the host
\* the record of an API call: the operation, the mode and index passed (for
\* SM_init its FirstState), the result and the behaviours it invoked
Done(op, mode, a, r) ==
    [op |-> op, mode |-> mode, a |-> a, ret |-> r.ret,
     log |-> [i \in 1 .. Len(r.log) |-> r.log[i][1]], nested |-> r.nested]

Idle(op) ==
    [op |-> op, mode |-> "", a |-> 0, ret |-> SM_OK, log |-> <<>>, nested |-> 0]

\* Timeout and Delay arguments: none, and the longest
Timeouts == {U32(0), U32(MaxTimeout)}
\* state indices a caller may pass: those of the array and one past them
Indices == 0 .. TableLen
\* the reads before which the host may increment the tick cell during a
\* call (0: it does not); an increment before the first read is HostTick
Advances(reads) == IF tick = U32(MaxTick) THEN {0} ELSE {0} \cup (2 .. reads)

\* the engine calls a behaviour may make: a transition request,
TransRequests ==
    {[NoCall EXCEPT !.call = "SM_Trans", !.mode = SM_TRANS_FAST, !.State = k] :
        k \in 0 .. TableLen - 1}
\* or a call of a control function
ControlCalls ==
    {[NoCall EXCEPT !.call = f, !.t = U32(MaxTimeout)] :
        f \in {"SM_exec_delay", "SM_exec_break", "SM_trans_lock"}}
NestedCalls == TransRequests \cup ControlCalls

\* what the behaviours of one call do: all quiet, or one of names calls
Users(names) == {Quiet} \cup {Only(n, b) : n \in names, b \in NestedCalls}
\* all quiet, or every one calls the same control function
Controllers == {Quiet} \cup {Every(b) : b \in ControlCalls}

\* the call r ran without undefined behaviour and within the bounds
Within(r) ==
    /\ ~r.ub
    /\ Geq32(U32(MaxCount), r.sm.MachineExecutionCounter)
    /\ Geq32(U32(MaxCount), r.sm.TransCounter)

\* the state after the call r
Return(r, rec) ==
    /\ Within(r)
    /\ sm' = r.sm
    /\ tick' = r.tk
    /\ last' = rec
    /\ UNCHANGED <<SM_tick, StateTable>>

\* SM_tick_variable_register
TickRegister ==
    \E Variable \in {NULL, Fn} :
        /\ SM_tick' = IF Variable = NULL THEN SM_tick ELSE Variable
        /\ last' = [Idle("SM_tick_variable_register") EXCEPT
                        !.ret = IF Variable = NULL THEN SM_INIT_ERR ELSE SM_OK]
        /\ UNCHANGED <<sm, tick, StateTable>>

\* the host increments the tick cell between two calls
HostTick ==
    /\ tick # U32(MaxTick)
    /\ tick' = Inc32(tick)
    /\ last' = Idle("tick")
    /\ UNCHANGED <<sm, SM_tick, StateTable>>

Init_call(insts, tables, sizes, users) ==
    \E inst \in insts, SM_states \in tables, FirstState \in Indices,
       NumberOfStates \in sizes, user \in users :
        LET r == SM_init(Call(sm, tick, 0), inst, SM_states, FirstState,
                         NumberOfStates, Fn, user)
        IN  Return(r, Done("SM_init", "", FirstState, r))

Trans_call(modes, users) ==
    \E mode \in modes, State \in Indices, user \in users, adv \in Advances(2) :
        LET r == SM_Trans(Call(sm, tick, adv), Fn, mode, State, user)
        IN  Return(r, Done("SM_Trans", mode, State, r))

Execution_call(users) ==
    \E user \in users, adv \in Advances(3) :
        \E r \in {SM_Execution(Call(sm, tick, adv), Fn, user)} :
            Return(r, Done("SM_Execution", "", 0, r))

ExecBreak_call ==
    \E Timeout \in Timeouts :
        LET r == SM_exec_break(Call(sm, tick, 0), Fn, Timeout)
        IN  Return(r, Done("SM_exec_break", "", 0, r))

ExecBreakRelease_call ==
    LET r == SM_exec_break_release(Call(sm, tick, 0), Fn)
    IN  Return(r, Done("SM_exec_break_release", "", 0, r))

TransLock_call ==
    \E Timeout \in Timeouts :
        LET r == SM_trans_lock(Call(sm, tick, 0), Fn, Timeout)
        IN  Return(r, Done("SM_trans_lock", "", 0, r))

TransLockRelease_call ==
    LET r == SM_trans_lock_release(Call(sm, tick, 0), Fn)
    IN  Return(r, Done("SM_trans_lock_release", "", 0, r))

ExecDelay_call ==
    \E Delay \in Timeouts :
        LET r == SM_exec_delay(Call(sm, tick, 0), Fn, Delay)
        IN  Return(r, Done("SM_exec_delay", "", 0, r))

OnBreakTimeoutRegister_call ==
    \E f \in {NULL, Fn} :
        LET r == SM_onBreakTimeout_callback_register(Call(sm, tick, 0), Fn, f)
        IN  Return(r, Done("SM_onBreakTimeout_callback_register", "", 0, r))

OnTransRegister_call ==
    \E f \in {NULL, Fn} :
        LET r == SM_onTrans_callback_register(Call(sm, tick, 0), Fn, f)
        IN  Return(r, Done("SM_onTrans_callback_register", "", 0, r))

\* the tables a caller may supply: full and bare states alternate, or
\* states without onEntry and states with nothing else
Tables ==
    {[i \in 0 .. TableLen - 1 |-> IF i % 2 = 0 THEN p[1] ELSE p[2]] :
        p \in {<<FullState, BareState>>, <<ExitState, EntryState>>}}

Init ==
    /\ sm = SM_instance_t
    /\ tick = UINT32_MAX
    /\ SM_tick = NULL
    /\ StateTable \in Tables
    /\ last = Idle("none")

AllModes == SM_transision_mode \cup {"invalid"}

\* every operation, with every argument
Next ==
    \/ TickRegister
    \/ HostTick
    \/ Init_call({NULL, Fn}, {NULL, TableAddr}, Indices, Users({"onEntry"}))
    \/ Trans_call(AllModes, Users({"onExit", "onEntry", "onTrans"}))
    \/ Execution_call(Users({"onBreakTimeout", "onExec"}))
    \/ ExecBreak_call
    \/ ExecBreakRelease_call
    \/ TransLock_call
    \/ TransLockRelease_call
    \/ ExecDelay_call
    \/ OnBreakTimeoutRegister_call
    \/ OnTransRegister_call

Spec == Init /\ [][Next]_vars

\* ---------------------------------------------------------- initialization
\* an onEntry that asks for a delay of its state's first execution
DelayingEntry ==
    Only("onEntry", [NoCall EXCEPT !.call = "SM_exec_delay",
                                   !.t = U32(MaxTimeout)])

\* SM_init with every argument, its onEntry quiet or asking for a delay, on
\* an instance that is fresh or was used by executions whose exec behaviour
\* made an engine call
NextInit ==
    \/ TickRegister
    \/ HostTick
    \/ Init_call({NULL, Fn}, {NULL, TableAddr}, Indices, {Quiet, DelayingEntry})
    \/ Execution_call(Users({"onExec"}))
    \/ OnTransRegister_call

SpecInit == Init /\ [][NextInit]_vars

\* SM_init called now on the instance, the first state's onEntry doing user
InitNow(inst, SM_states, FirstState, NumberOfStates, user) ==
    SM_init(Call(sm, tick, 0), inst, SM_states, FirstState, NumberOfStates,
            Fn, user)

\* C1: every SM_init call with an instance, a table and
\* FirstState < NumberOfStates reports SM_OK and leaves the state number
\* equal to FirstState, the three counters 0, ExecBreak and TransitionLock
\* clear, DelayTime 0 and PrevState NULL, whatever the instance held before
\* the call.
C1_InitPostcondition ==
    (last.op = "SM_init" /\ last.ret = SM_OK) =>
        /\ SM_get_state_number(Fn, sm) = last.a
        /\ SM_get_exec_counter_state(Fn, sm) = U32(0)
        /\ SM_get_exec_counter_machine(Fn, sm) = U32(0)
        /\ SM_get_trans_counter(Fn, sm) = U32(0)
        /\ sm.ExecBreak = 0
        /\ sm.TransitionLock = 0
        /\ sm.DelayTime = U32(0)
        /\ sm.PrevState = NULL

\* C2: SM_init never invokes the entry behaviour of a state, also when the
\* initial state has one.
C2_InitNeverInvokesEntry ==
    last.op = "SM_init" => \A i \in 1 .. Len(last.log) : last.log[i] # "onEntry"

\* C3: an SM_init call with no instance, no table, NumberOfStates = 0 or
\* FirstState >= NumberOfStates reports SM_INIT_ERR, invokes no behaviour
\* and leaves every field of the instance as it was.
C3_FailedInitChangesNothing ==
    \A inst \in {NULL, Fn}, SM_states \in {NULL, TableAddr},
       FirstState \in Indices, NumberOfStates \in Indices :
        (\/ inst = NULL
         \/ SM_states = NULL
         \/ NumberOfStates = 0
         \/ FirstState >= NumberOfStates) =>
            LET r == InitNow(inst, SM_states, FirstState, NumberOfStates, Quiet)
            IN  r.ret = SM_INIT_ERR /\ r.sm = sm /\ r.log = << >> /\ ~r.ub

\* SM_init failed on an instance that had been initialized and executed
C3_Witness ==
    /\ last.op = "SM_init" /\ last.ret = SM_INIT_ERR
    /\ sm.ActualState # NULL
    /\ sm.MachineExecutionCounter # U32(0)

\* ------------------------------------------------------- the transition lock
\* SM_Trans with every mode and index, the lock armed and released
NextLock ==
    \/ TickRegister
    \/ HostTick
    \/ Init_call({Fn}, {TableAddr}, {TableLen}, {Quiet})
    \/ Trans_call(AllModes, {Quiet})
    \/ TransLock_call
    \/ TransLockRelease_call
    \/ OnTransRegister_call

SpecLock == Init /\ [][NextLock]_vars

\* SM_Trans called now on the instance, the tick cell not moving meanwhile
TransNow(mode, State, user) == SM_Trans(Call(sm, tick, 0), Fn, mode, State, user)

\* C4: SM_Trans with an index >= NumberOfStates reports SM_TRANS_ERR, invokes
\* no behaviour and leaves ActualState, PrevState, TransTick, TransitionLock
\* and the three counters as they were, whether or not a lock is active.
C4_BadIndexRejected ==
    \A mode \in AllModes, State \in Indices :
        LET r == TransNow(mode, State, Quiet)
        IN  State >= sm.NumberOfStates =>
                /\ r.ret = SM_TRANS_ERR
                /\ r.log = << >>
                /\ ~r.ub
                /\ r.sm.ActualState = sm.ActualState
                /\ r.sm.PrevState = sm.PrevState
                /\ r.sm.TransTick = sm.TransTick
                /\ r.sm.TransitionLock = sm.TransitionLock
                /\ r.sm.StateExecutionCounter = sm.StateExecutionCounter
                /\ r.sm.MachineExecutionCounter = sm.MachineExecutionCounter
                /\ r.sm.TransCounter = sm.TransCounter

\* SM_Trans with the index one past the table was refused while the lock is
\* active, after an earlier transition
C4_Witness ==
    /\ last.op = "SM_Trans" /\ last.ret = SM_TRANS_ERR
    /\ sm.ActualState # NULL
    /\ last.a >= sm.NumberOfStates
    /\ sm.TransitionLock = 1
    /\ sm.TransCounter # U32(0)

ModeLacksBehaviour(mode, cur, tgt) ==
    \/ mode = SM_TRANS_ENTRY_EXIT /\ (cur.onExit = NULL \/ tgt.onEntry = NULL)
    \/ mode = SM_TRANS_ENTRY /\ tgt.onEntry = NULL
    \/ mode = SM_TRANS_EXIT /\ cur.onExit = NULL

\* what C6 says of an SM_Trans call, a failed one leaving the instance as kept
ModeFailure(mode, State, kept) ==
    LET r == TransNow(mode, State, Quiet)
    IN  (/\ sm.ActualState # NULL
         /\ State < sm.NumberOfStates
         /\ ~r.ub
         /\ r.ret # SM_TRANS_LOCKED) =>
            /\ r.ret = SM_TRANS_ERR <=>
                   ModeLacksBehaviour(mode, StateAt(sm.ActualState),
                                      StateTable[State])
            /\ r.ret = SM_TRANS_ERR => r.log = << >> /\ r.sm = kept
            /\ r.ret # SM_TRANS_ERR => r.ret = SM_OK

\* C6 (amended): a transition that is not locked out, in mode EntryExit,
\* Entry or Exit, fails with SM_TRANS_ERR exactly when a behaviour the mode
\* needs is absent (the source's onExit, the target's onEntry); a failed one
\* invokes no behaviour and changes no field, except that it clears a
\* TransitionLock whose window has elapsed.
C6_ModeFailure ==
    \A mode \in SM_transision_mode \ {SM_TRANS_FAST}, State \in Indices :
        ModeFailure(mode, State, [sm EXCEPT !.TransitionLock = 0])

\* an EntryExit transition to a valid index failed for want of a behaviour
C6_Witness ==
    /\ last.op = "SM_Trans" /\ last.ret = SM_TRANS_ERR
    /\ last.mode = SM_TRANS_ENTRY_EXIT
    /\ last.a < sm.NumberOfStates
    /\ last.log = << >>

\* C6 as stated: a transition with a valid index in one of the three modes
\* fails with SM_TRANS_ERR exactly when a behaviour the mode needs is absent,
\* and a failed one invokes no behaviour and changes no field at all.
C6_AsStated ==
    \A mode \in SM_transision_mode \ {SM_TRANS_FAST}, State \in Indices :
        LET r == TransNow(mode, State, Quiet)
        IN  (sm.ActualState # NULL /\ State < sm.NumberOfStates /\ ~r.ub) =>
                /\ r.ret = SM_TRANS_ERR <=>
                       ModeLacksBehaviour(mode, StateAt(sm.ActualState),
                                          StateTable[State])
                /\ r.ret = SM_TRANS_ERR => r.log = << >> /\ r.sm = sm

\* ------------------------------------------------------------- transitions
\* SM_Trans with every mode and index, between executions, no lock armed
NextTrans ==
    \/ TickRegister
    \/ HostTick
    \/ Init_call({Fn}, {TableAddr}, {TableLen}, {Quiet})
    \/ Trans_call(AllModes, {Quiet})
    \/ Execution_call({Quiet})
    \/ OnTransRegister_call

SpecTrans == Init /\ [][NextTrans]_vars

\* the call can be made: the instance is initialized, the tick source is
\* registered and no transition lock is still running
TransReady ==
    /\ sm.ActualState # NULL
    /\ SM_tick # NULL
    /\ sm.TransitionLock = 1 => TransLockElapsed(sm, tick)

\* how many times the call r invoked the behaviour name
Invoked(r, name) == Cardinality({i \in 1 .. Len(r.log) : r.log[i][1] = name})

\* what C7 promises of a Fast transition r
FastPost(r) ==
    /\ r.ret = SM_OK
    /\ Invoked(r, "onExit") = 0
    /\ Invoked(r, "onEntry") = 0
    /\ r.sm.TransCounter = Inc32(sm.TransCounter)
    /\ r.sm.StateExecutionCounter = U32(0)

\* C7 (amended): on an initialized instance with no unexpired lock, SM_Trans
\* in Fast mode to an index < NumberOfStates reports SM_OK whether or not the
\* current state has onExit and the target has onEntry, invokes neither,
\* raises TransCounter by exactly 1 and leaves StateExecutionCounter 0,
\* provided onTrans makes no call on the instance other than SM_exec_delay,
\* SM_exec_break or SM_trans_lock.
C7_FastTransition ==
    \A State \in Indices, user \in Controllers :
        (TransReady /\ State < sm.NumberOfStates) =>
            FastPost(TransNow(SM_TRANS_FAST, State, user))

\* a Fast transition succeeded to another state, one without onEntry, after
\* an execution had counted
C7_Witness ==
    /\ last.op = "SM_Trans" /\ last.mode = SM_TRANS_FAST /\ last.ret = SM_OK
    /\ sm.PrevState # sm.ActualState
    /\ StateAt(sm.ActualState).onEntry = NULL
    /\ sm.MachineExecutionCounter # U32(0)
    /\ sm.TransCounter # U32(0)

\* C7 as stated: the same whatever onTrans does, a transition request
\* included.
C7_AsStated ==
    \A State \in Indices, user \in Users({"onTrans"}) :
        (TransReady /\ State < sm.NumberOfStates) =>
            FastPost(TransNow(SM_TRANS_FAST, State, user))

\* what C8 promises of a successful transition r to index State
TransPost(r, State) ==
    /\ r.sm.ActualState = sm.SM_states + State
    /\ StateAt(r.sm.ActualState) = StateTable[State]
    /\ r.sm.PrevState = sm.ActualState
    /\ r.sm.TransTick = r.rd[Len(r.rd)]
    /\ r.sm.StateExecutionCounter = U32(0)
    /\ r.sm.TransCounter = Inc32(sm.TransCounter)
    /\ Invoked(r, "onTrans") = IF sm.onTrans # NULL THEN 1 ELSE 0
    /\ r.sm.MachineExecutionCounter = sm.MachineExecutionCounter

\* the behaviours a transition may invoke
TransUsers == Users({"onExit", "onEntry", "onTrans"})

\* C8 (amended): an SM_Trans call that reports SM_OK, during which the
\* behaviours it invokes make no call on the instance other than
\* SM_exec_delay, SM_exec_break or SM_trans_lock, leaves ActualState at the
\* table entry of the requested index, PrevState at the state active before the call,
\* TransTick at the tick the call read, StateExecutionCounter 0 and
\* TransCounter one higher, has invoked onTrans exactly once if it is
\* registered, and leaves MachineExecutionCounter as it was.
C8_SuccessPostcondition ==
    \A mode \in AllModes, State \in Indices, user \in Controllers :
        LET r == TransNow(mode, State, user)
        IN  (sm.ActualState # NULL /\ ~r.ub /\ r.ret = SM_OK)
                => TransPost(r, State)

\* an Entry transition succeeded with onTrans registered, after an execution
\* had counted
C8_Witness ==
    /\ last.op = "SM_Trans" /\ last.mode = SM_TRANS_ENTRY
    /\ last.ret = SM_OK
    /\ last.log = <<"onEntry", "onTrans">>
    /\ sm.ActualState = sm.SM_states + last.a
    /\ sm.MachineExecutionCounter # U32(0)

\* C8 as stated: the same whatever the behaviours do, transition requests
\* included.
C8_AsStated ==
    \A mode \in AllModes, State \in Indices, user \in TransUsers :
        LET r == TransNow(mode, State, user)
        IN  (sm.ActualState # NULL /\ ~r.ub /\ r.ret = SM_OK)
                => TransPost(r, State)

\* the events C9 expects of a successful transition in mode to index State
TransEvents(mode, State) ==
    LET old == sm.ActualState
        target == sm.SM_states + State
    IN  (IF mode \in {SM_TRANS_ENTRY_EXIT, SM_TRANS_EXIT}
         THEN << <<"onExit", old, sm.PrevState>> >> ELSE << >>)
        \o (IF mode \in {SM_TRANS_ENTRY_EXIT, SM_TRANS_ENTRY}
            THEN << <<"onEntry", target, old>> >> ELSE << >>)
        \o (IF sm.onTrans # NULL
            THEN << <<"onTrans", target, old>> >> ELSE << >>)

\* C9 (amended): in a successful SM_Trans call during which the behaviours
\* it invokes make no call on the instance other than SM_exec_delay,
\* SM_exec_break or SM_trans_lock, the events are, in this order: the current
\* state's onExit (modes EntryExit, Exit), the swap PrevState := old state
\* and ActualState := target, the target's onEntry (modes EntryExit, Entry),
\* onTrans; onExit observes the old state as ActualState, onEntry and
\* onTrans observe the target as ActualState and the old state as PrevState.
C9_TransitionOrder ==
    \A mode \in AllModes, State \in Indices, user \in Controllers :
        LET r == TransNow(mode, State, user)
        IN  (sm.ActualState # NULL /\ ~r.ub /\ r.ret = SM_OK)
                => r.log = TransEvents(mode, State)

\* an EntryExit transition between two different states succeeded and
\* invoked the three behaviours
C9_Witness ==
    /\ last.op = "SM_Trans" /\ last.mode = SM_TRANS_ENTRY_EXIT
    /\ last.ret = SM_OK
    /\ last.log = <<"onExit", "onEntry", "onTrans">>
    /\ sm.PrevState # NULL
    /\ sm.PrevState # sm.ActualState

\* C9 as stated: the same events whatever the behaviours do, transition
\* requests included.
C9_AsStated ==
    \A mode \in AllModes, State \in Indices, user \in TransUsers :
        LET r == TransNow(mode, State, user)
        IN  (sm.ActualState # NULL /\ ~r.ub /\ r.ret = SM_OK)
                => r.log = TransEvents(mode, State)

\* ---------------------------------------------------------------- execution
\* SM_Execution between breaks, releases and delays
NextExec ==
    \/ TickRegister
    \/ HostTick
    \/ Init_call({Fn}, {TableAddr}, {TableLen}, {Quiet})
    \/ Execution_call({Quiet})
    \/ ExecBreak_call
    \/ ExecBreakRelease_call
    \/ ExecDelay_call
    \/ OnBreakTimeoutRegister_call

SpecExec == Init /\ [][NextExec]_vars

\* a break is active and fewer than ExecBlockTimeout ticks have passed since
\* SM_exec_break armed it
InBreakWindow ==
    /\ sm.ActualState # NULL
    /\ SM_tick # NULL
    /\ sm.ExecBreak = 1
    /\ ~Geq32(TimeSub(tick, sm.ExecBlockTick), sm.ExecBlockTimeout)

\* C10: after SM_exec_break(W) at tick T, an SM_Execution call made while
\* now - T < W invokes neither the active state's exec behaviour nor
\* onBreakTimeout, leaves ExecBreak active and leaves StateExecutionCounter,
\* MachineExecutionCounter, lastExecTick and DelayTime as they were.
C10_BreakWindow ==
    \A user \in Controllers, adv \in {0, 2} :
        LET r == SM_Execution(Call(sm, tick, adv), Fn, user)
        IN  InBreakWindow =>
                /\ ~r.ub
                /\ r.log = << >>
                /\ r.ret \in {SM_EXEC_DELAYED, SM_EXEC_NULL_PTR}
                /\ r.sm.ExecBreak = 1
                /\ r.sm.StateExecutionCounter = sm.StateExecutionCounter
                /\ r.sm.MachineExecutionCounter = sm.MachineExecutionCounter
                /\ r.sm.lastExecTick = sm.lastExecTick
                /\ r.sm.DelayTime = sm.DelayTime

\* SM_Execution was deferred inside the break window of an instance that had
\* executed before, with onBreakTimeout registered
C10_Witness ==
    /\ last.op = "SM_Execution" /\ last.ret = SM_EXEC_DELAYED
    /\ InBreakWindow
    /\ sm.onBreakTimeout # NULL
    /\ sm.MachineExecutionCounter # U32(0)

\* a break is active and at least ExecBlockTimeout ticks have passed since
\* SM_exec_break armed it
BreakExpired ==
    /\ sm.ActualState # NULL
    /\ SM_tick # NULL
    /\ sm.ExecBreak = 1
    /\ Geq32(TimeSub(tick, sm.ExecBlockTick), sm.ExecBlockTimeout)

\* the same call at tick now, had no break been armed
Unbroken(user, now) ==
    SM_Execution(Call([sm EXCEPT !.ExecBreak = 0], now, 0), Fn, user)

\* what C11 promises of the call r that observes the expiry
ExpiryPost(r, user) ==
    /\ ~r.ub
    /\ Invoked(r, "onBreakTimeout") = IF sm.onBreakTimeout # NULL THEN 1 ELSE 0
    /\ sm.onBreakTimeout # NULL => r.log[1][1] = "onBreakTimeout"
    /\ (StateAt(sm.ActualState).onExec # NULL /\ sm.DelayTime = U32(0)) =>
           /\ r.ret = SM_OK
           /\ Invoked(r, "onExec") = 1
    /\ Invoked(SM_Execution(Call(r.sm, r.tk, 0), Fn, user),
               "onBreakTimeout") = 0

\* the behaviours of an execution whose onBreakTimeout makes no call on the
\* instance
ExpiryUsers == {Quiet} \cup {Only("onExec", b) : b \in NestedCalls}

\* C11 (amended): the first SM_Execution call that observes
\* now - ExecBlockTick >= ExecBlockTimeout of an armed break clears ExecBreak,
\* invokes onBreakTimeout exactly once if it is registered (the next call
\* does not invoke it again) and, provided onBreakTimeout makes no call on
\* the instance, evaluates the exec gate in the same call as if no break had
\* been armed: it ends as the call without the break ends, and invokes the
\* exec behaviour when the state has one and no delay is pending.
C11_BreakExpiry ==
    \A user \in ExpiryUsers, adv \in {0, 2} :
        LET r == SM_Execution(Call(sm, tick, adv), Fn, user)
            free == Unbroken(user, IF adv = 0 THEN tick ELSE Inc32(tick))
        IN  BreakExpired =>
                /\ ExpiryPost(r, user)
                /\ r.ret = free.ret
                /\ r.sm = free.sm

\* the call that found a break of MaxTimeout ticks elapsed invoked
\* onBreakTimeout and then the exec behaviour
C11_Witness ==
    /\ last.op = "SM_Execution" /\ last.ret = SM_OK
    /\ last.log = <<"onBreakTimeout", "onExec">>
    /\ sm.ExecBreak = 0
    /\ sm.ExecBlockTimeout = U32(MaxTimeout)
    /\ sm.ExecBlockTick # tick

\* C11 as stated: the same whatever onBreakTimeout does, arming a break
\* included.
C11_AsStated ==
    \A user \in {Only("onBreakTimeout", b) : b \in ControlCalls} :
        BreakExpired =>
            ExpiryPost(SM_Execution(Call(sm, tick, 0), Fn, user), user)

\* SM_exec_delay has just set a delay D > 0, at the present tick, on an
\* instance with no break active whose state has an exec behaviour
DelayJustSet ==
    /\ last.op = "SM_exec_delay"
    /\ sm.DelayTime # U32(0)
    /\ sm.ActualState # NULL
    /\ SM_tick # NULL
    /\ sm.ExecBreak = 0
    /\ StateAt(sm.ActualState).onExec # NULL

\* C12: after SM_exec_delay(D), D > 0, at tick T (no break active, the state
\* has an exec behaviour), an SM_Execution call at a tick earlier than T + D,
\* here at T itself, reports SM_EXEC_DELAYED and changes no counter.
C12_DelayFromCall ==
    [][(DelayJustSet /\ last'.op = "SM_Execution" /\ tick' = tick) =>
          /\ last'.ret = SM_EXEC_DELAYED
          /\ sm'.StateExecutionCounter = sm.StateExecutionCounter
          /\ sm'.MachineExecutionCounter = sm.MachineExecutionCounter]_vars

\* the gate of C14 at the present tick: the state has an exec behaviour, no
\* break is left by the expiry check, and no delay is pending
GateOpen ==
    /\ StateAt(sm.ActualState).onExec # NULL
    /\ sm.ExecBreak = 1 => ExecBreakElapsed(sm, tick)
    /\ sm.DelayTime = U32(0)
           \/ Geq32(TimeSub(tick, sm.lastExecTick), sm.DelayTime)

\* what C14 promises of the call r made at the present tick
ExecPost(r) ==
    /\ ~r.ub
    /\ r.ret = SM_OK <=> GateOpen
    /\ Invoked(r, "onExec") = IF GateOpen THEN 1 ELSE 0
    /\ GateOpen =>
           /\ r.sm.lastExecTick = tick
           /\ r.sm.StateExecutionCounter = Inc32(sm.StateExecutionCounter)
           /\ r.sm.MachineExecutionCounter = Inc32(sm.MachineExecutionCounter)
    /\ (StateAt(sm.ActualState).onExec # NULL /\ ~GateOpen) =>
           r.ret = SM_EXEC_DELAYED

\* the behaviours of an execution whose onBreakTimeout makes no call on the
\* instance and whose exec behaviour requests no transition
GateUsers == {Quiet} \cup {Only("onExec", b) : b \in ControlCalls}

\* C14 (amended): for an initialized instance, SM_Execution invokes the exec
\* behaviour and reports SM_OK iff the state has one, ExecBreak is inactive
\* after the expiry check of the same call, and DelayTime = 0 or
\* now - lastExecTick >= DelayTime; on success lastExecTick = now and
\* StateExecutionCounter and MachineExecutionCounter are one higher each; if
\* the state has an exec behaviour and the gate fails it reports
\* SM_EXEC_DELAYED; provided onBreakTimeout makes no call on the instance and
\* the exec behaviour requests no transition.
C14_ExecGate ==
    \A user \in GateUsers :
        (sm.ActualState # NULL /\ SM_tick # NULL) =>
            ExecPost(SM_Execution(Call(sm, tick, 0), Fn, user))

\* an execution succeeded one tick after the instance was initialized and
\* counted once
C14_Witness ==
    /\ last.op = "SM_Execution" /\ last.ret = SM_OK
    /\ last.log = <<"onExec">>
    /\ tick = U32(0)
    /\ sm.lastExecTick = tick
    /\ sm.StateExecutionCounter = U32(1)
    /\ sm.MachineExecutionCounter = U32(1)

\* C14 as stated: the same whatever the exec behaviour does, a transition
\* request included.
C14_AsStated ==
    \A user \in {Only("onExec", b) : b \in TransRequests} :
        (sm.ActualState # NULL /\ SM_tick # NULL) =>
            ExecPost(SM_Execution(Call(sm, tick, 0), Fn, user))

\* the instance after an SM_Execution call that only ran the expiry check
ExpiryOnly ==
    [sm EXCEPT !.ExecBreak =
                   IF sm.ExecBreak = 1 /\ ExecBreakElapsed(sm, tick) THEN 0 ELSE @]

\* what C15 promises of the call r
FramePost(r) ==
    r.ret \in {SM_EXEC_DELAYED, SM_EXEC_NULL_PTR, SM_WRONG_STATE} =>
        /\ r.sm = ExpiryOnly
        /\ Invoked(r, "onExec") = 0

\* C15 (amended): an SM_Execution call that reports SM_EXEC_DELAYED or a
\* failure (SM_EXEC_NULL_PTR, SM_WRONG_STATE) changes no field of the
\* instance other than clearing ExecBreak when the break window has elapsed,
\* provided onBreakTimeout makes no call on the instance.
C15_DeferredFrame ==
    \A user \in GateUsers, adv \in {0, 2, 3} :
        LET r == SM_Execution(Call(sm, tick, adv), Fn, user)
        IN  (sm.ActualState # NULL /\ SM_tick # NULL) => FramePost(r)

\* a call found the break elapsed, invoked onBreakTimeout and was then
\* deferred by a pending delay
C15_Witness ==
    /\ last.op = "SM_Execution" /\ last.ret = SM_EXEC_DELAYED
    /\ last.log = <<"onBreakTimeout">>
    /\ sm.ExecBreak = 0
    /\ sm.DelayTime # U32(0)
    /\ sm.MachineExecutionCounter # U32(0)

\* C15 as stated: the same whatever onBreakTimeout does.
C15_AsStated ==
    \A user \in Users({"onBreakTimeout"}) :
        (sm.ActualState # NULL /\ SM_tick # NULL) =>
            FramePost(SM_Execution(Call(sm, tick, 0), Fn, user))

\* the active state has no exec behaviour
NoExec ==
    /\ sm.ActualState # NULL
    /\ SM_tick # NULL
    /\ StateAt(sm.ActualState).onExec = NULL

\* what C24 promises of the call r on a state without exec behaviour
MissingPost(r, user) ==
    /\ ~r.ub
    /\ r.ret = SM_EXEC_NULL_PTR
    /\ Invoked(r, "onExec") = 0
    /\ IF sm.ExecBreak = 1 /\ ExecBreakElapsed(sm, tick)
       THEN /\ Invoked(r, "onBreakTimeout") =
                   IF sm.onBreakTimeout # NULL THEN 1 ELSE 0
            /\ r.sm.ExecBreak =
                   IF /\ sm.onBreakTimeout # NULL
                      /\ user["onBreakTimeout"].call = "SM_exec_break"
                   THEN 1 ELSE 0
       ELSE r.sm = sm /\ r.log = << >>

\* C24 (amended): when the active state has no exec behaviour, SM_Execution
\* reports SM_EXEC_NULL_PTR whatever the break and the delay are (never
\* SM_EXEC_DELAYED), and an elapsed break is still cleared and
\* onBreakTimeout still invoked in that same call, provided onBreakTimeout
\* requests no transition.
C24_MissingExec ==
    \A user \in Controllers, adv \in {0, 2} :
        NoExec => MissingPost(SM_Execution(Call(sm, tick, adv), Fn, user), user)

\* on a state without exec behaviour, with a delay pending, the call found
\* the break elapsed, invoked onBreakTimeout and reported the failure
C24_Witness ==
    /\ last.op = "SM_Execution" /\ last.ret = SM_EXEC_NULL_PTR
    /\ last.log = <<"onBreakTimeout">>
    /\ NoExec
    /\ sm.ExecBreak = 0
    /\ sm.DelayTime # U32(0)

\* C24 as stated: the same whatever onBreakTimeout does, a transition
\* request included.
C24_AsStated ==
    \A user \in {Only("onBreakTimeout", b) : b \in TransRequests} :
        NoExec => MissingPost(SM_Execution(Call(sm, tick, 0), Fn, user), user)

\* -------------------------------------------------------------------- delay
\* SM_Execution between delays, its behaviours quiet or calling a control
\* function
NextDelay ==
    \/ TickRegister
    \/ HostTick
    \/ Init_call({Fn}, {TableAddr}, {TableLen}, {Quiet})
    \/ Execution_call(Controllers)
    \/ ExecDelay_call

SpecDelay == Init /\ [][NextDelay]_vars

\* the delay the call r leaves pending: the one its exec behaviour asked for
DelayLeft(user) ==
    IF user["onExec"].call = "SM_exec_delay" THEN user["onExec"].t ELSE U32(0)

\* C13: a successful SM_Execution has reset DelayTime to 0 before the exec
\* behaviour runs, so after it DelayTime is what the exec behaviour set, 0 if
\* it set none, and then the next SM_Execution is not deferred by delay;
\* SM_exec_delay while a delay is pending replaces the pending value and
\* nothing else.
C13_DelayOneShot ==
    /\ \A user \in Users({"onExec"}), adv \in {0, 2} :
           LET r == SM_Execution(Call(sm, tick, adv), Fn, user)
           IN  (sm.ActualState # NULL /\ SM_tick # NULL /\ r.ret = SM_OK) =>
                   /\ r.sm.DelayTime = DelayLeft(user)
                   /\ (DelayLeft(user) = U32(0) /\ r.sm.ExecBreak = 0) =>
                          SM_Execution(Call(r.sm, r.tk, 0), Fn, Quiet).ret
                              # SM_EXEC_DELAYED
    /\ \A Delay \in Timeouts :
           LET r == SM_exec_delay(Call(sm, tick, 0), Fn, Delay)
           IN  /\ r.ret = SM_OK
               /\ r.sm = [sm EXCEPT !.DelayTime = Delay]

\* an execution succeeded whose exec behaviour asked for a delay: the delay
\* it set is pending after the call, past the reset of the same call
C13_Witness ==
    /\ last.op = "SM_Execution" /\ last.ret = SM_OK
    /\ last.log = <<"onExec">> /\ last.nested = 1
    /\ sm.DelayTime = U32(MaxTimeout)
    /\ sm.lastExecTick = tick

\* ------------------------------------------------------------------ release
\* breaks and locks armed and released, between executions
NextRelease ==
    \/ TickRegister
    \/ HostTick
    \/ Init_call({Fn}, {TableAddr}, {TableLen}, {Quiet})
    \/ Execution_call({Quiet})
    \/ ExecBreak_call
    \/ ExecBreakRelease_call
    \/ TransLock_call
    \/ TransLockRelease_call
    \/ OnBreakTimeoutRegister_call

SpecRelease == Init /\ [][NextRelease]_vars

\* what C16 promises of the release call r that clears the flag of cleared:
\* success, the flag inactive and nothing else changed, no behaviour invoked,
\* no tick read
ReleasePost(r, cleared) ==
    /\ ~r.ub
    /\ r.ret = SM_OK
    /\ r.sm = cleared
    /\ r.log = << >>
    /\ r.rd = << >>

\* C16: SM_exec_break_release and SM_trans_lock_release report SM_OK and
\* leave ExecBreak, respectively TransitionLock, inactive whatever time has
\* elapsed; they never invoke onBreakTimeout; with the flag already inactive
\* they change nothing, so releasing twice is releasing once.
C16_Release ==
    LET b == SM_exec_break_release(Call(sm, tick, 0), Fn)
        l == SM_trans_lock_release(Call(sm, tick, 0), Fn)
    IN  /\ ReleasePost(b, [sm EXCEPT !.ExecBreak = 0])
        /\ ReleasePost(l, [sm EXCEPT !.TransitionLock = 0])
        /\ sm.ExecBreak = 0 => b.sm = sm
        /\ sm.TransitionLock = 0 => l.sm = sm
        /\ SM_exec_break_release(Call(b.sm, tick, 0), Fn).sm = b.sm
        /\ SM_trans_lock_release(Call(l.sm, tick, 0), Fn).sm = l.sm

\* a break and a lock of MaxTimeout ticks, armed at the present tick, have
\* both been released inside their windows, with onBreakTimeout registered
C16_Witness ==
    /\ last.op \in {"SM_exec_break_release", "SM_trans_lock_release"}
    /\ sm.onBreakTimeout # NULL
    /\ sm.ExecBreak = 0 /\ sm.ExecBlockTimeout = U32(MaxTimeout)
    /\ sm.ExecBlockTick = tick
    /\ sm.TransitionLock = 0 /\ sm.TransLockTimeout = U32(MaxTimeout)
    /\ sm.TransLockTick = tick
    /\ tick = U32(0)

\* ------------------------------------------------- calls made by behaviours
\* what the behaviours of one call do: all quiet, or one of names requests a
\* transition
Requesters(names) ==
    {Quiet} \cup {Only(n, b) : n \in names, b \in TransRequests}

\* transitions and executions whose behaviours request transitions, on an
\* instance bound to the whole table or to its first state only
NextNested ==
    \/ TickRegister
    \/ HostTick
    \/ Init_call({Fn}, {TableAddr}, {1, TableLen}, {Quiet})
    \/ Trans_call({SM_TRANS_FAST, SM_TRANS_ENTRY_EXIT},
                  Requesters({"onExit", "onEntry", "onTrans"}))
    \/ Execution_call(Requesters({"onExec"}))
    \/ OnTransRegister_call

SpecNested == Init /\ [][NextNested]_vars

\* C17: in every state reached from a successful SM_init through
\* SM_Execution, SM_Trans and the calls made from inside behaviours,
\* ActualState references an entry of the bound table, its index in
\* 0 .. NumberOfStates - 1, and SM_Execution has not reported SM_WRONG_STATE.
C17_StateInRange ==
    sm.ActualState # NULL =>
        /\ sm.SM_states = TableAddr
        /\ sm.NumberOfStates \in 1 .. TableLen
        /\ sm.ActualState - sm.SM_states \in 0 .. sm.NumberOfStates - 1
        /\ SM_state_is_in_range(sm, sm.ActualState) = SM_OK
        /\ SM_get_state_number(Fn, sm) < sm.NumberOfStates
        /\ last.ret # SM_WRONG_STATE
        /\ SM_Execution(Call(sm, tick, 0), Fn, Quiet).ret # SM_WRONG_STATE

\* an execution whose exec behaviour requested a transition has moved the
\* instance to the last state of the table
C17_Witness ==
    /\ last.op = "SM_Execution" /\ last.ret = SM_OK /\ last.nested = 1
    /\ sm.TransCounter # U32(0)
    /\ sm.PrevState # sm.ActualState
    /\ sm.ActualState = sm.SM_states + TableLen - 1

\* the counters of the instance s
Counters(s) ==
    <<s.StateExecutionCounter, s.MachineExecutionCounter, s.TransCounter>>

\* the instance after each control call that can be made now
ControlResults ==
    {SM_exec_break(Call(sm, tick, 0), Fn, t).sm : t \in Timeouts}
    \cup {SM_trans_lock(Call(sm, tick, 0), Fn, t).sm : t \in Timeouts}
    \cup {SM_exec_delay(Call(sm, tick, 0), Fn, t).sm : t \in Timeouts}
    \cup {SM_exec_break_release(Call(sm, tick, 0), Fn).sm,
          SM_trans_lock_release(Call(sm, tick, 0), Fn).sm}

C19_CountsFromZero ==
    [][(/\ sm.ActualState # NULL
        /\ last'.op = "SM_Execution" /\ last'.ret = SM_OK
        /\ last'.log = <<"onExec">> /\ last'.nested = 1
        /\ sm'.TransCounter = Inc32(sm.TransCounter)
        /\ sm'.ActualState # sm.ActualState) =>
           SM_get_exec_counter_state(Fn, sm') = U32(0)]_vars

\* C20: SM_get_time_in_state is the number of ticks since the instance
\* entered its current state: called at the tick at which a quiet SM_Trans
\* has succeeded, or at which SM_init has succeeded when no transition has
\* happened yet, it returns 0.
C20_TimeInState ==
    (/\ SM_tick # NULL
     /\ last.op \in {"SM_init", "SM_Trans"}
     /\ last.ret = SM_OK /\ last.nested = 0) =>
        SM_get_time_in_state(Fn, sm, tick) = U32(0)

\* the ticks at which the next call may be made: now and the two after it
Later == {tick, Inc32(tick), Inc32(Inc32(tick))}

\* the instance with no trace of an earlier break or lock window
Unarmed ==
    [sm EXCEPT !.ExecBreak = 0, !.ExecBlockTick = U32(0),
               !.ExecBlockTimeout = U32(0),
               !.TransitionLock = 0, !.TransLockTick = U32(0),
               !.TransLockTimeout = U32(0)]

\* what C22 promises of the break b armed now with timeout W2
RearmedBreak(b, W2) ==
    /\ b.ret = SM_OK
    /\ b.sm = [sm EXCEPT !.ExecBreak = 1, !.ExecBlockTick = tick,
                         !.ExecBlockTimeout = W2]
    /\ \A now \in Later :
           SM_Execution(Call(b.sm, now, 0), Fn, Quiet).sm.ExecBreak =
               IF Geq32(TimeSub(now, tick), W2) THEN 0 ELSE 1

\* what C22 promises of the lock l armed now with timeout W2
RearmedLock(l, W2) ==
    /\ l.ret = SM_OK
    /\ l.sm = [sm EXCEPT !.TransitionLock = 1, !.TransLockTick = tick,
                         !.TransLockTimeout = W2]
    /\ \A now \in Later :
           SM_Trans(Call(l.sm, now, 0), Fn, SM_TRANS_FAST, 0, Quiet).ret =
               IF Geq32(TimeSub(now, tick), W2) THEN SM_OK ELSE SM_TRANS_LOCKED

\* C22: SM_exec_break and SM_trans_lock called at tick T2 with timeout W2,
\* also while a window (T1, W1) is armed, arm the flag and replace the
\* window: afterwards expiry is decided by now - T2 >= W2 alone, and the
\* window left is the one the call leaves on an instance that had none.
C22_Rearm ==
    \A W2 \in Timeouts :
        (sm.ActualState # NULL /\ SM_tick # NULL) =>
            /\ RearmedBreak(SM_exec_break(Call(sm, tick, 0), Fn, W2), W2)
            /\ RearmedLock(SM_trans_lock(Call(sm, tick, 0), Fn, W2), W2)
            /\ SM_exec_break(Call(Unarmed, tick, 0), Fn, W2).sm.ExecBlockTick
                   = SM_exec_break(Call(sm, tick, 0), Fn, W2).sm.ExecBlockTick
            /\ SM_trans_lock(Call(Unarmed, tick, 0), Fn, W2).sm.TransLockTick
                   = SM_trans_lock(Call(sm, tick, 0), Fn, W2).sm.TransLockTick

\* after the tick cell moved, SM_exec_break has armed a break of MaxTimeout
\* ticks that starts at the present tick, the lock armed one tick earlier
\* being armed still
C22_Witness ==
    /\ last.op = "SM_exec_break"
    /\ tick # UINT32_MAX
    /\ sm.ExecBreak = 1 /\ sm.ExecBlockTick = tick
    /\ sm.ExecBlockTimeout = U32(MaxTimeout)
    /\ sm.TransitionLock = 1 /\ Inc32(sm.TransLockTick) = tick
    /\ sm.ActualState # NULL

\* -------------------------------------------------------------- the wrap
\* breaks, locks and delays armed before the tick cell wraps, executions
\* before and after it
NextWrap ==
    \/ TickRegister
    \/ HostTick
    \/ Init_call({Fn}, {TableAddr}, {TableLen}, {Quiet})
    \/ Execution_call({Quiet})
    \/ ExecBreak_call
    \/ TransLock_call
    \/ ExecDelay_call

SpecWrap == Init /\ [][NextWrap]_vars

RECURSIVE TicksFrom(_, _, _)
\* k plus the number of increments that take the tick cell from S to now,
\* the wrap included; MaxTick + 2 stands for any larger number
TicksFrom(S, now, k) ==
    IF S = now \/ k = MaxTick + 2 THEN k
    ELSE TicksFrom(Inc32(S), now, k + 1)

\* the window of W ticks that started at tick S is still running
WindowRuns(S, W) == W[1] = 0 /\ TicksFrom(S, tick, 0) < W[2]

\* C21: elapsed time is (now - start) mod 2^32, so a break, lock or delay
\* window of W ticks that starts at tick S (for a delay the tick of the last
\* execution) suppresses the gated operation exactly while fewer than W
\* ticks have been counted since S, and allows it at the first call after
\* that, also when the tick cell has wrapped from 2^32 - 1 to 0 inside the
\* window.
C21_WrapWindows ==
    (sm.ActualState # NULL /\ SM_tick # NULL) =>
        /\ sm.ExecBreak = 1 =>
               LET r == SM_Execution(Call(sm, tick, 0), Fn, Quiet)
               IN  IF WindowRuns(sm.ExecBlockTick, sm.ExecBlockTimeout)
                   THEN r.sm.ExecBreak = 1 /\ Invoked(r, "onExec") = 0
                   ELSE r.sm.ExecBreak = 0
        /\ sm.TransitionLock = 1 =>
               LET r == SM_Trans(Call(sm, tick, 0), Fn, SM_TRANS_FAST, 0, Quiet)
               IN  IF WindowRuns(sm.TransLockTick, sm.TransLockTimeout)
                   THEN r.ret = SM_TRANS_LOCKED /\ r.sm = sm
                   ELSE r.ret = SM_OK /\ r.sm.TransitionLock = 0
        /\ (/\ sm.DelayTime # U32(0)
            /\ sm.ExecBreak = 0
            /\ StateAt(sm.ActualState).onExec # NULL) =>
               LET r == SM_Execution(Call(sm, tick, 0), Fn, Quiet)
               IN  IF WindowRuns(sm.lastExecTick, sm.DelayTime)
                   THEN r.ret = SM_EXEC_DELAYED
                   ELSE r.ret = SM_OK

\* an execution after the wrap found elapsed the break of MaxTimeout ticks
\* that was armed at tick 2^32 - 1, and ran the exec behaviour
C21_Witness ==
    /\ last.op = "SM_Execution" /\ last.ret = SM_OK
    /\ sm.ExecBlockTick = UINT32_MAX
    /\ sm.ExecBlockTimeout = U32(MaxTimeout)
    /\ sm.ExecBreak = 0
    /\ tick # UINT32_MAX
    /\ sm.lastExecTick = tick

\* ------------------------------------------------------ nested transitions
\* one behaviour of the transition requests a transition
ReentryUsers ==
    {Only(n, b) : n \in {"onExit", "onEntry", "onTrans"}, b \in TransRequests}

\* SM_Trans called with a behaviour that requests a transition; the call may
\* count two transitions
Reentry_call ==
    \E mode \in {SM_TRANS_FAST, SM_TRANS_ENTRY_EXIT}, State \in Indices,
       user \in ReentryUsers :
        \E r \in {SM_Trans(Call(sm, tick, 0), Fn, mode, State, user)} :
            /\ ~r.ub
            /\ Geq32(U32(MaxCount + 1), r.sm.TransCounter)
            /\ sm' = r.sm
            /\ tick' = r.tk
            /\ last' = Done("SM_Trans", mode, State, r)
            /\ UNCHANGED <<SM_tick, StateTable>>

NextReentry ==
    \/ TickRegister
    \/ HostTick
    \/ Init_call({Fn}, {TableAddr}, {1, TableLen}, {Quiet})
    \/ Reentry_call
    \/ OnTransRegister_call

SpecReentry == Init /\ [][NextReentry]_vars

\* what the outer call r to index State leaves when the behaviour name
\* requested a transition to index k that succeeded
ReentryPost(r, State, name, k) ==
    /\ r.sm.StateExecutionCounter = U32(0)
    /\ IF name = "onExit"
       THEN /\ r.sm.ActualState = sm.SM_states + State
            /\ r.sm.PrevState = sm.SM_states + k
       ELSE /\ r.sm.ActualState = sm.SM_states + k
            /\ r.sm.PrevState = sm.SM_states + State

\* C25 (amended): when an exit, entry or onTrans behaviour invoked by
\* SM_Trans itself calls SM_Trans successfully, the outer SM_Trans still
\* reports SM_OK with StateExecutionCounter 0; if the exit behaviour made the
\* call, ActualState is the outer call's target and PrevState the nested
\* call's target; if the entry or onTrans behaviour made it, ActualState is
\* the nested call's target and PrevState the outer call's target.
C25_NestedTransition ==
    \A mode \in SM_transision_mode, State \in Indices,
       name \in {"onExit", "onEntry", "onTrans"}, k \in 0 .. TableLen - 1 :
        LET r == SM_Trans(Call(sm, tick, 0), Fn, mode, State,
                          Only(name, [NoCall EXCEPT !.call = "SM_Trans",
                                                    !.mode = SM_TRANS_FAST,
                                                    !.State = k]))
        IN  (/\ sm.ActualState # NULL
             /\ r.nested = 1
             /\ r.sm.TransCounter = Inc32(Inc32(sm.TransCounter))) =>
                /\ r.ret = SM_OK
                /\ ReentryPost(r, State, name, k)

\* the entry or onTrans behaviour of a successful transition requested a
\* transition to another state, which is the active state now
C25_Witness ==
    /\ last.op = "SM_Trans" /\ last.ret = SM_OK /\ last.nested = 1
    /\ sm.TransCounter = U32(2)
    /\ sm.ActualState # sm.SM_states + last.a
    /\ sm.PrevState = sm.SM_states + last.a

\* C25 as stated: after a successful SM_Trans during which a behaviour's
\* SM_Trans call succeeded, ActualState is the outer call's target, PrevState
\* the state that was active when the outer call began, and
\* StateExecutionCounter 0.
C25_AsStated ==
    [][(/\ sm.ActualState # NULL
        /\ last'.op = "SM_Trans" /\ last'.ret = SM_OK /\ last'.nested = 1
        /\ sm'.TransCounter = Inc32(Inc32(sm.TransCounter))) =>
           /\ sm'.ActualState = sm.SM_states + last'.a
           /\ sm'.PrevState = sm.ActualState
           /\ sm'.StateExecutionCounter = U32(0)]_vars

\* C27: in every reachable state of an initialised instance PrevState is NULL
\* if and only if TransCounter is 0, a PrevState that is not NULL references
\* an entry of the bound table, and a transition to the index of the current
\* state succeeds when no lock is set and the mode is SM_TRANS_FAST, and
\* whenever it succeeds leaves PrevState equal to ActualState.
C27_PrevState ==
    sm.ActualState # NULL =>
        /\ (sm.PrevState = NULL) <=> (sm.TransCounter = U32(0))
        /\ sm.PrevState # NULL =>
              /\ sm.PrevState - sm.SM_states \in 0 .. sm.NumberOfStates - 1
              /\ SM_state_is_in_range(sm, sm.PrevState) = SM_OK
        /\ \A mode \in SM_transision_mode :
              LET r == SM_Trans(Call(sm, tick, 0), Fn, mode,
                                SM_get_state_number(Fn, sm), Quiet)
              IN  /\ (mode = SM_TRANS_FAST /\ sm.TransitionLock = 0) =>
                        r.ret = SM_OK
                  /\ r.ret = SM_OK =>
                        /\ r.sm.ActualState = sm.ActualState
                        /\ r.sm.PrevState = r.sm.ActualState

\* the first transition since SM_init was one to the index of the current
\* state
C27_Witness ==
    /\ last.op = "SM_Trans" /\ last.ret = SM_OK /\ last.nested = 0
    /\ sm.TransCounter = U32(1)
    /\ sm.PrevState = sm.ActualState
    /\ SM_get_state_number(Fn, sm) = last.a

\* ------------------------------------------------------------ the two gates
\* the first transition of an instance, and the first execution of each
\* state, while breaks, delays and locks are armed
NextGates ==
    \/ TickRegister
    \/ HostTick
    \/ Init_call({Fn}, {TableAddr}, {TableLen}, {Quiet})
    \/ sm.TransCounter = U32(0) /\ Trans_call({SM_TRANS_FAST}, {Quiet})
    \/ sm.StateExecutionCounter = U32(0) /\ Execution_call({Quiet})
    \/ ExecBreak_call
    \/ TransLock_call
    \/ ExecDelay_call

SpecGates == Init /\ [][NextGates]_vars

\* the fields of the execution gate, and those of the transition gate
ExecGateFields(s) ==
    <<s.ExecBreak, s.ExecBlockTick, s.ExecBlockTimeout, s.DelayTime,
      s.lastExecTick>>
TransGateFields(s) ==
    <<s.TransitionLock, s.TransLockTick, s.TransLockTimeout, s.TransTick,
      s.TransCounter>>
\* the instance with no break and no delay, and with no lock
NoExecGate(s) ==
    [s EXCEPT !.ExecBreak = 0, !.ExecBlockTick = U32(0),
              !.ExecBlockTimeout = U32(0), !.DelayTime = U32(0)]
NoTransGate(s) ==
    [s EXCEPT !.TransitionLock = 0, !.TransLockTick = U32(0),
              !.TransLockTimeout = U32(0)]

\* C26: with behaviours that make no engine calls, SM_Trans returns what it
\* returns with no break and no delay armed, SM_Execution returns what it
\* returns with no lock armed, a successful SM_Trans leaves ExecBreak,
\* ExecBlockTick, ExecBlockTimeout, DelayTime and lastExecTick as they were,
\* so that an execution deferred in the old state is deferred in a new state
\* that has an exec behaviour, and SM_Execution leaves TransitionLock,
\* TransLockTick, TransLockTimeout, TransTick and TransCounter as they were.
C26_Orthogonal ==
    sm.ActualState # NULL =>
        /\ \A mode \in SM_transision_mode, State \in Indices :
              LET t == SM_Trans(Call(sm, tick, 0), Fn, mode, State, Quiet)
                  u == SM_Trans(Call(NoExecGate(sm), tick, 0), Fn, mode,
                                State, Quiet)
              IN  /\ t.ret = u.ret
                  /\ t.ret # SM_EXEC_DELAYED
                  /\ t.ret = SM_OK =>
                        /\ ExecGateFields(t.sm) = ExecGateFields(sm)
                        /\ (/\ SM_Execution(Call(sm, tick, 0), Fn, Quiet).ret
                                = SM_EXEC_DELAYED
                            /\ StateAt(t.sm.ActualState).onExec # NULL) =>
                              SM_Execution(Call(t.sm, tick, 0), Fn, Quiet).ret
                                = SM_EXEC_DELAYED
        /\ LET e == SM_Execution(Call(sm, tick, 0), Fn, Quiet)
               u == SM_Execution(Call(NoTransGate(sm), tick, 0), Fn, Quiet)
           IN  /\ e.ret = u.ret
               /\ TransGateFields(e.sm) = TransGateFields(sm)

\* a transition succeeded under an armed break and a pending delay, and they
\* gate the new state
C26_Witness ==
    /\ last.op = "SM_Trans" /\ last.ret = SM_OK
    /\ sm.ActualState # sm.PrevState
    /\ sm.ExecBreak = 1 /\ sm.DelayTime # U32(0)
    /\ StateAt(sm.ActualState).onExec # NULL
    /\ SM_Execution(Call(sm, tick, 0), Fn, Quiet).ret = SM_EXEC_DELAYED

\* ---------------------------------------------------------------- liveness
\* no break has been armed on the instance since it was initialized, or only
\* breaks of no length that have been cleared
NoBreakYet == sm.ExecBreak = 0 /\ sm.ExecBlockTimeout = U32(0)

\* a caller that sets the instance up, delays included, arms a break and
\* from then on only calls SM_Execution while the host increments the tick
NextLive ==
    \/ TickRegister
    \/ HostTick
    \/ NoBreakYet /\ Init_call({Fn}, {TableAddr}, {TableLen}, {Quiet})
    \/ Execution_call({Quiet})
    \/ NoBreakYet /\ ExecBreak_call
    \/ NoBreakYet /\ ExecDelay_call

\* the tick keeps advancing and SM_Execution keeps being called
SpecLive ==
    /\ Init /\ [][NextLive]_vars
    /\ WF_vars(HostTick)
    /\ WF_vars(Execution_call({Quiet}))

\* a break of some length is armed on a state with an exec behaviour, and
\* its window and the pending delay end within the ticks and the executions
\* the bounds leave
BreakArmed ==
    /\ sm.ActualState # NULL
    /\ SM_tick # NULL
    /\ sm.ExecBreak = 1
    /\ sm.ExecBlockTimeout # U32(0)
    /\ StateAt(sm.ActualState).onExec # NULL
    /\ Geq32(TimeSub(U32(MaxTick), sm.ExecBlockTick), sm.ExecBlockTimeout)
    /\ \/ sm.DelayTime = U32(0)
       \/ Geq32(TimeSub(U32(MaxTick), sm.lastExecTick), sm.DelayTime)
    /\ sm.MachineExecutionCounter # U32(MaxCount)

\* the break is inactive and the call just made invoked the exec behaviour
ExecResumed ==
    /\ sm.ExecBreak = 0
    /\ last.op = "SM_Execution"
    /\ last.ret = SM_OK
    /\ last.log # << >>
    /\ last.log[Len(last.log)] = "onExec"

\* C23: if a break is armed and afterwards neither armed again nor a new
\* delay set, the tick keeps advancing and SM_Execution keeps being called
\* (both weakly fair), and the active state has an exec behaviour, then
\* eventually ExecBreak is inactive and the exec behaviour is invoked.
C23_BreakLiveness == BreakArmed ~> ExecResumed

\* the exec behaviour ran in the call that found the break of MaxTimeout
\* ticks elapsed, with no onBreakTimeout registered
C23_Witness ==
    /\ ExecResumed
    /\ last.log = <<"onExec">>
    /\ sm.onBreakTimeout = NULL
    /\ sm.ExecBlockTimeout = U32(MaxTimeout)
    /\ Geq32(TimeSub(tick, sm.ExecBlockTick), sm.ExecBlockTimeout)
    /\ sm.lastExecTick = tick

=============================================================================
